---- MODULE Spec2Model ----
(***************************************************************************)
(* Model of src/telegram_nano_bot.py: the NanoAPI client (create-task     *)
(* call, status call) and the polling loop of NanoAPI.run_job, run        *)
(* against a remote generation service whose replies are nondeterministic. *)
(***************************************************************************)
EXTENDS Integers, Sequences, FiniteSets, TLC

\* ------------------------------------------------------------------------
\* Bounds of the model
\* ------------------------------------------------------------------------
\* largest max_wait a caller passes to run_job (the smallest is MinWait)
MaxWait == 10

\* ------------------------------------------------------------------------
\* Program constants
\* ------------------------------------------------------------------------
\* a poll interval of 5 seconds
SleepSeconds_Five == 5
\* asyncio.sleep(4) / waited += 4
SleepSeconds == 4
\* result.get("code") != 200
SuccessCode == 200
\* num_images: int = 1
DefaultNumImages == 1
\* smallest max_wait of the model: a caller may pass a non-positive budget
MinWait == 0 - 1

Runs == {1, 2}
TaskIds == {"t1", "t2"}
Prompt == "a prompt"
SourceUrl == "https://files/photo.jpg"
ResultUrl == "https://result/image.png"
ErrorText == "nsfw content"
RejectText == "bad prompt"
RejectCode == 500

\* ------------------------------------------------------------------------
\* Python / JSON values
\* ------------------------------------------------------------------------
\* Python None, JSON null
Null == [null |-> TRUE]
\* the empty dict {}
EmptyDict == [k \in {} |-> 0]
\* dict.get(key, default)
Get(d, k, default) == IF k \in DOMAIN d THEN d[k] ELSE default
\* a Python list
PyList(s) == [list |-> s]
\* truthiness of an Optional[list]: None and [] are falsy
Truthy(v) == v # Null /\ v # PyList(<<>>)

\* What an HTTP call can come back with: the transport raised, the body is
\* not JSON, or the body is a JSON object.
NetError == [fault |-> "network"]
NotJson == [fault |-> "notjson"]
Json(d) == [json |-> d]

\* A call's result: a returned value or a raised exception.
Returned(v) == [raised |-> FALSE, value |-> v]
Raised(exc, msg) == [raised |-> TRUE, exc |-> exc, msg |-> msg]

\* ------------------------------------------------------------------------
\* Arguments of run_job
\* ------------------------------------------------------------------------
Types == {"TEXTTOIAMGE", "IMAGETOIAMGE"}
ImageUrlArgs == {Null, PyList(<<>>), PyList(<<SourceUrl>>)}
ArgSet == [prompt : {Prompt}, type_ : Types, image_urls : ImageUrlArgs,
           max_wait : MinWait .. MaxWait]
\* a run that is never invoked in this behaviour
NotCalled == [called |-> FALSE]

\* ------------------------------------------------------------------------
\* NanoAPI._generate_task
\* ------------------------------------------------------------------------
\* the JSON body posted to /generate
GeneratePayload(prompt, type_, num_images, image_urls) ==
    LET data == [prompt |-> prompt, type |-> type_, numImages |-> num_images,
                 callBackUrl |-> "https://httpbin.org/post"]
    IN  IF Truthy(image_urls) THEN data @@ [imageUrls |-> image_urls] ELSE data

\* the request _generate_task issues
GenerateRequest(a) ==
    [op |-> "generate",
     json |-> GeneratePayload(a.prompt, a.type_, DefaultNumImages, a.image_urls)]

\* the code test is skipped when the reply has no code
GenerateResult_CodeOptional(reply) ==
    IF reply = NetError THEN Raised("RequestException", "connection failed")
    ELSE IF reply = NotJson THEN Raised("JSONDecodeError", "not json")
    ELSE LET result == reply.json
         IN  IF "code" \in DOMAIN result /\ result.code # SuccessCode
             THEN Raised("ValueError", Get(result, "msg", "Unknown error"))
             ELSE IF "data" \notin DOMAIN result
                  THEN Raised("KeyError", "data")
                  ELSE Returned(result.data.taskId)

\* what _generate_task does with the reply to its POST
GenerateResult(reply) ==
    IF reply = NetError THEN Raised("RequestException", "connection failed")
    ELSE IF reply = NotJson THEN Raised("JSONDecodeError", "not json")
    ELSE LET result == reply.json
         IN  IF "code" \notin DOMAIN result \/ result.code # SuccessCode
             THEN Raised("ValueError", Get(result, "msg", "Unknown error"))
             ELSE IF "data" \notin DOMAIN result
                  THEN Raised("KeyError", "data")
                  ELSE Returned(result.data.taskId)

\* the replies the service (or a stub of it) can give to a create-task call
\* that would be assigned task id t
GenerateReplies(t) ==
    {NetError, NotJson,
     Json([code |-> SuccessCode, data |-> [taskId |-> t]]),
     Json([code |-> SuccessCode]),
     Json([code |-> RejectCode, msg |-> RejectText]),
     Json([code |-> RejectCode]),
     Json([msg |-> RejectText])}

\* ------------------------------------------------------------------------
\* NanoAPI._get_status
\* ------------------------------------------------------------------------
\* the "data" objects of a record-info body
DataDicts ==
    {EmptyDict, [successFlag |-> 0], [successFlag |-> 4],
     [successFlag |-> 1, response |-> [resultImageUrl |-> ResultUrl]],
     [successFlag |-> 1],
     [successFlag |-> 2, errorMessage |-> ErrorText], [successFlag |-> 2],
     [successFlag |-> 3, errorMessage |-> ErrorText], [successFlag |-> 3]}

\* the bodies the record-info endpoint can hold for a task
StatusBodies ==
    {NotJson, Json(EmptyDict), Json([data |-> Null])}
        \cup {Json([data |-> d]) : d \in DataDicts}

\* a task id the service has not issued
NoTask == [absent |-> TRUE]

\* the task id in the request is a fixed one
StatusRequest_FixedId(task_id) == [op |-> "status", taskId |-> "t1"]

\* the request _get_status issues
StatusRequest(task_id) == [op |-> "status", taskId |-> task_id]

\* the body the record-info endpoint answers a status request with; a task id
\* it has not issued gets a JSON object without data
ServeStatus(rem, req) ==
    IF rem[req.taskId] = NoTask THEN Json([code |-> 404]) ELSE rem[req.taskId]

\* a failed status call is swallowed and reported as an empty data dict
GetStatusResult_Swallow(reply) ==
    IF reply \in {NetError, NotJson} THEN Returned(EmptyDict)
    ELSE Returned(Get(reply.json, "data", EmptyDict))

\* what _get_status does with the reply to its GET
GetStatusResult(reply) ==
    IF reply = NetError THEN Raised("RequestException", "connection failed")
    ELSE IF reply = NotJson THEN Raised("JSONDecodeError", "not json")
    ELSE Returned(Get(reply.json, "data", EmptyDict))

\* ------------------------------------------------------------------------
\* NanoAPI.run_job: the body of the polling loop
\* ------------------------------------------------------------------------
\* flag == n, for flag = data.get("successFlag")
FlagIs(data, n) == "successFlag" \in DOMAIN data /\ data.successFlag = n

\* flag == 1 never holds (the flag compared as a string)
PollStatus_NoSuccess(data) ==
    IF FlagIs(data, 2) \/ FlagIs(data, 3) THEN "Failed" ELSE "Pending"

\* every flag above 1 is taken as a failure
PollStatus_AboveOne(data) ==
    IF FlagIs(data, 1) THEN "Succeeded"
    ELSE IF "successFlag" \in DOMAIN data /\ data.successFlag > 1 THEN "Failed"
    ELSE "Pending"

\* the failure test is flag == 2 only
PollStatus_Only2(data) ==
    IF FlagIs(data, 1) THEN "Succeeded"
    ELSE IF FlagIs(data, 2) THEN "Failed"
    ELSE "Pending"

\* the branch the loop body takes on the data of one poll
PollStatus(data) ==
    IF FlagIs(data, 1) THEN "Succeeded"
    ELSE IF FlagIs(data, 2) \/ FlagIs(data, 3) THEN "Failed"
    ELSE "Pending"

\* the loop body after data = self._get_status(task_id): a return, a raise,
\* or a sleep
LoopBody(data) ==
    IF data = Null THEN [act |-> "raise", site |-> "flag",
                         res |-> Raised("AttributeError", "get")]
    ELSE IF PollStatus(data) = "Succeeded"
         THEN IF "response" \in DOMAIN data
              THEN [act |-> "return", site |-> "result",
                    res |-> Returned(data.response.resultImageUrl)]
              ELSE [act |-> "raise", site |-> "result",
                    res |-> Raised("KeyError", "response")]
    ELSE IF PollStatus(data) = "Failed"
         THEN [act |-> "raise", site |-> "failed",
               res |-> Raised("ValueError",
                              Get(data, "errorMessage", "Generation failed"))]
    ELSE [act |-> "sleep", site |-> "sleep", res |-> Returned(Null)]

\* the loop condition is waited <= max_wait
LoopTest_Inclusive(w, max_wait) == w <= max_wait

\* the loop condition
LoopTest(w, max_wait) == w < max_wait

\* ------------------------------------------------------------------------
\* Handlers: what the bot does with one update
\* ------------------------------------------------------------------------
\* max_wait: int = 240
DefaultMaxWait == 240
\* a timeout of 120 seconds
CallTimeout_Double == 120
\* timeout=60 of requests.post and requests.get
CallTimeout == 60

\* an update: kind is the command ("nano", "nanoedit", "start") or "text" for
\* a message that is no command; has_args is context.args being non-empty
\* (for "text": the message has text); reply_to_photo is the message
\* replying to a message with a photo
Updates == [kind : {"nano", "nanoedit", "text", "start"}, has_args : BOOLEAN,
            reply_to_photo : BOOLEAN]
\* an invocation of run_job that no handler made
NoUpdate == [direct |-> TRUE]

\* a message to the user
Message(kind, body) == [kind |-> kind, body |-> body]

\* text_to_image up to its call of run_job
TextToImage(u) ==
    [first |-> <<Message("text", "Generating")>>, run |-> TRUE,
     args |-> [prompt |-> Prompt, type_ |-> "TEXTTOIAMGE", image_urls |-> Null,
               max_wait |-> DefaultMaxWait]]

\* the test for a replied-to photo is missing
ImageToImage_NoPhotoCheck(u) ==
    [first |-> <<Message("text", "Editing")>>, run |-> TRUE,
     args |-> [prompt |-> Prompt, type_ |-> "IMAGETOIAMGE",
               image_urls |-> IF u.reply_to_photo THEN PyList(<<SourceUrl>>)
                              ELSE Null,
               max_wait |-> DefaultMaxWait]]

\* image_to_image up to its call of run_job
ImageToImage(u) ==
    IF ~u.reply_to_photo
    THEN [first |-> <<Message("text", "Reply to a photo")>>, run |-> FALSE,
          args |-> NotCalled]
    ELSE [first |-> <<Message("text", "Editing")>>, run |-> TRUE,
          args |-> [prompt |-> Prompt, type_ |-> "IMAGETOIAMGE",
                    image_urls |-> PyList(<<SourceUrl>>),
                    max_wait |-> DefaultMaxWait]]

\* the handler main() registers for the update, run up to its call of
\* run_job or to its return: the messages it sends first, whether it calls
\* run_job, and with which arguments
HandlerPlan(u) ==
    IF u.kind = "start"
    THEN [first |-> <<Message("text", "Help")>>, run |-> FALSE, args |-> NotCalled]
    ELSE IF u.kind = "nano"
    THEN IF ~u.has_args
         THEN [first |-> <<Message("text", "Usage nano")>>, run |-> FALSE,
               args |-> NotCalled]
         ELSE TextToImage(u)
    ELSE IF u.kind = "nanoedit"
    THEN IF ~u.has_args
         THEN [first |-> <<Message("text", "Usage nanoedit")>>, run |-> FALSE,
               args |-> NotCalled]
         ELSE ImageToImage(u)
    ELSE IF ~u.has_args
         THEN [first |-> <<>>, run |-> FALSE, args |-> NotCalled]
         ELSE IF u.reply_to_photo THEN ImageToImage(u) ELSE TextToImage(u)

\* the error message does not carry the exception's text
FinalMessage_NoText(out) ==
    IF out.res.raised THEN Message("error", "Something went wrong")
    ELSE Message("photo", out.res.value)

\* the message a handler sends when run_job has returned or raised
FinalMessage(out) ==
    IF out.res.raised THEN Message("error", out.res.msg)
    ELSE Message("photo", out.res.value)

\* ------------------------------------------------------------------------
\* The event loop
\* ------------------------------------------------------------------------
\* no task is running: the event loop is free
NoOne == 0

\* the requests library awaits too: the submit call suspends run_job
AwaitPoints_WithSubmit == {"sleep", "generate"}

\* the steps of run_job after which it is suspended in an await
AwaitPoints == {"sleep"}

\* the task the event loop runs after invocation r has taken a step: r itself,
\* unless the step suspended it in an await or ended it
NextHolder(r, step) ==
    IF step \in AwaitPoints \cup {"exit"} THEN NoOne ELSE r

\* ------------------------------------------------------------------------
\* State
\* ------------------------------------------------------------------------
VARIABLES
    headers,   \* nano_api.headers, set by __init__
    args,      \* the arguments of each run_job invocation
    pc,        \* where each invocation is
    task_id,   \* run_job's local task_id
    waited,    \* run_job's local waited
    result,    \* _generate_task's local result (the parsed create-task reply)
    resp,      \* _get_status's local resp (the last reply to a status call)
    data,      \* run_job's local data (the last poll's data)
    outcome,   \* how each invocation ended
    calls,     \* the service calls each invocation has issued, in order
    remote,    \* the record-info body the service holds for each task id
    update,    \* the update whose handler makes the invocation
    handler,   \* where that handler is
    replies,   \* the messages the handler has sent to the user, in order
    running,   \* the invocation the event loop is running, or NoOne
    yields,    \* how often each invocation was suspended inside run_job
    latency,   \* the longest a service call takes in this behaviour
    elapsed    \* the seconds each invocation has taken since its submit began

vars == <<headers, args, pc, task_id, waited, result, resp, data, outcome,
          calls, remote, update, handler, replies, running, yields, latency,
          elapsed>>

runVars == <<args, pc, task_id, waited, result, resp, data, outcome, calls>>

handlerVars == <<update, handler, replies>>

\* a local that is not bound yet
Unset == [unset |-> TRUE]
\* task_id before _generate_task has returned
NoTaskId == "unset"

InitHeaders == [Authorization |-> "Bearer key"]

\* the state after nano_api = NanoAPI(NANO_API_KEY), for the invocations
\* given by one of the scenarios
InitWith(scenario) ==
    /\ headers = InitHeaders
    /\ \E s \in scenario :
          /\ args = s.args
          /\ update = s.update
          /\ latency = s.latency
    /\ handler = [r \in Runs |-> IF update[r] = NoUpdate THEN "none"
                                 ELSE "received"]
    /\ replies = [r \in Runs |-> <<>>]
    /\ running = NoOne
    /\ yields = [r \in Runs |-> 0]
    /\ elapsed = [r \in Runs |-> 0]
    /\ pc = [r \in Runs |-> "idle"]
    /\ task_id = [r \in Runs |-> NoTaskId]
    /\ waited = [r \in Runs |-> 0]
    /\ result = [r \in Runs |-> Unset]
    /\ resp = [r \in Runs |-> Unset]
    /\ data = [r \in Runs |-> Unset]
    /\ outcome = [r \in Runs |-> Unset]
    /\ calls = [r \in Runs |-> <<>>]
    /\ remote = [t \in TaskIds |-> NoTask]

\* one invocation with any arguments
OneRun == {f \in [Runs -> ArgSet \cup {NotCalled}] :
              f[1] # NotCalled /\ \A r \in Runs \ {1} : f[r] = NotCalled}

\* one update of any kind
OneUpdate == {g \in [Runs -> Updates \cup {NoUpdate}] :
                 g[1] # NoUpdate /\ \A r \in Runs \ {1} : g[r] = NoUpdate}

\* run_job is called directly with the arguments of S, each call taking up
\* to lat seconds
Direct(S, lat) ==
    {[args |-> f, update |-> [r \in Runs |-> NoUpdate], latency |-> lat] :
        f \in S}

\* the bot receives the updates of S
Received(S, lat) ==
    {[args |-> [r \in Runs |-> NotCalled], update |-> g, latency |-> lat] :
        g \in S}

\* one invocation with a budget of one poll
OneShortRun ==
    {f \in OneRun : f[1] = [prompt |-> Prompt, type_ |-> "TEXTTOIAMGE",
                            image_urls |-> Null, max_wait |-> SleepSeconds]}

\* one /nano command with a prompt
OneNano ==
    {g \in OneUpdate : g[1] = [kind |-> "nano", has_args |-> TRUE,
                               reply_to_photo |-> FALSE]}

\* run_job called with any arguments, or through /nano
Init == InitWith(Direct(OneRun, 0) \cup Received(OneNano, 0))

\* one text-to-image invocation with any budget
OneTextRun ==
    {f \in OneRun : f[1].type_ = "TEXTTOIAMGE" /\ f[1].image_urls = Null}

\* a slow network: each service call may take up to its timeout
TimedInit ==
    InitWith(Direct(OneTextRun, CallTimeout) \cup Received(OneNano, CallTimeout))

\* two invocations, each with a budget of one or two polls
TwoRuns ==
    [Runs -> {a \in ArgSet : /\ a.type_ = "TEXTTOIAMGE" /\ a.image_urls = Null
                             /\ a.max_wait \in {SleepSeconds, 2 * SleepSeconds}}]

\* two invocations of run_job on one event loop
ConcInit == InitWith(Direct(TwoRuns, 0) \cup Received(OneNano, 0))

\* the bot handling any one update
HandlerInit == InitWith(Received(OneUpdate, 0) \cup Direct(OneShortRun, 0))

\* ------------------------------------------------------------------------
\* Actions
\* ------------------------------------------------------------------------
\* invocation r can take a step: the event loop is free or is running it
CanRun(r) == running \in {NoOne, r}

\* invocation r has taken a step of run_job or of its handler: the event
\* loop goes to whoever runs next, and a suspension inside run_job is counted
Schedule(r, step) ==
    /\ running' = NextHolder(r, step)
    /\ yields' = [yields EXCEPT ![r] = IF step \in AwaitPoints THEN @ + 1 ELSE @]

\* a caller awaits nano_api.run_job(...)
Call(r) ==
    /\ pc[r] = "idle"
    /\ args[r] # NotCalled
    /\ CanRun(r)
    /\ pc' = [pc EXCEPT ![r] = "generate"]
    /\ Schedule(r, "call")
    /\ UNCHANGED <<headers, args, task_id, waited, result, resp, data, outcome,
                   calls, remote, handlerVars, latency, elapsed>>

\* the handler of an update runs up to its call of run_job, or to its return
Handle(r) ==
    /\ handler[r] = "received"
    /\ CanRun(r)
    /\ LET plan == HandlerPlan(update[r])
       IN  /\ replies' = [replies EXCEPT ![r] = @ \o plan.first]
           /\ IF plan.run
              THEN /\ args' = [args EXCEPT ![r] = plan.args]
                   /\ pc' = [pc EXCEPT ![r] = "generate"]
                   /\ handler' = [handler EXCEPT ![r] = "awaiting"]
                   /\ Schedule(r, "call")
              ELSE /\ handler' = [handler EXCEPT ![r] = "finished"]
                   /\ Schedule(r, "exit")
                   /\ UNCHANGED <<args, pc>>
    /\ UNCHANGED <<headers, task_id, waited, result, resp, data, outcome,
                   calls, remote, update, latency, elapsed>>

\* task_id = self._generate_task(...); waited = 0
Generate(r) ==
    /\ pc[r] = "generate"
    /\ CanRun(r)
    /\ \E t \in {u \in TaskIds : remote[u] = NoTask} :
       \E reply \in GenerateReplies(t) :
       \E body \in StatusBodies :
          LET res == GenerateResult(reply)
          IN  /\ calls' = [calls EXCEPT ![r] = Append(@, GenerateRequest(args[r]))]
              /\ result' = [result EXCEPT ![r] =
                               IF reply \in {NetError, NotJson}
                               THEN Unset ELSE reply.json]
              /\ IF res.raised
                 THEN /\ outcome' = [outcome EXCEPT ![r] =
                                        [site |-> "generate", res |-> res]]
                      /\ pc' = [pc EXCEPT ![r] = "done"]
                      /\ Schedule(r, "exit")
                      /\ UNCHANGED <<task_id, waited, remote>>
                 ELSE /\ task_id' = [task_id EXCEPT ![r] = res.value]
                      /\ waited' = [waited EXCEPT ![r] = 0]
                      /\ pc' = [pc EXCEPT ![r] = "loop"]
                      /\ Schedule(r, "generate")
                      /\ remote' = [remote EXCEPT ![t] = body]
                      /\ UNCHANGED outcome
    /\ \E d \in {0, latency} : elapsed' = [elapsed EXCEPT ![r] = @ + d]
    /\ UNCHANGED <<headers, args, resp, data, handlerVars, latency>>

\* the status call stores the task id in the shared client headers
GetStatusEffects_TouchesHeaders(r) ==
    /\ headers' = [Authorization |-> "Bearer key", taskId |-> task_id[r]]
    /\ UNCHANGED remote

\* what a status call leaves alone: _get_status assigns nothing of the client
\* and issues a GET, which changes nothing at the service
GetStatusEffects(r) == UNCHANGED <<headers, remote>>

\* one iteration of the loop up to its return, raise or sleep
Poll(r) ==
    /\ pc[r] = "loop"
    /\ CanRun(r)
    /\ LoopTest(waited[r], args[r].max_wait)
    /\ \E reply \in {NetError, ServeStatus(remote, StatusRequest(task_id[r]))} :
          LET got == GetStatusResult(reply)
              req == StatusRequest(task_id[r]) @@ [at |-> waited[r]]
          IN  /\ calls' = [calls EXCEPT ![r] = Append(@, req)]
              /\ resp' = [resp EXCEPT ![r] = reply]
              /\ IF got.raised
                 THEN /\ outcome' = [outcome EXCEPT ![r] =
                                        [site |-> "status", res |-> got]]
                      /\ pc' = [pc EXCEPT ![r] = "done"]
                      /\ Schedule(r, "exit")
                      /\ UNCHANGED data
                 ELSE LET body == LoopBody(got.value)
                      IN  /\ data' = [data EXCEPT ![r] = got.value]
                          /\ IF body.act = "sleep"
                             THEN /\ pc' = [pc EXCEPT ![r] = "sleep"]
                                  /\ Schedule(r, "sleep")
                                  /\ UNCHANGED outcome
                             ELSE /\ pc' = [pc EXCEPT ![r] = "done"]
                                  /\ Schedule(r, "exit")
                                  /\ outcome' = [outcome EXCEPT ![r] =
                                        [site |-> body.site, res |-> body.res]]
    /\ GetStatusEffects(r)
    /\ \E d \in {0, latency} : elapsed' = [elapsed EXCEPT ![r] = @ + d]
    /\ UNCHANGED <<args, task_id, waited, result, handlerVars, latency>>

\* waited is a counter of the shared client: a wake-up advances it for all
Wake_SharedCounter(r) ==
    /\ pc[r] = "sleep"
    /\ CanRun(r)
    /\ waited' = [q \in Runs |-> IF pc[q] \in {"loop", "sleep"}
                                 THEN waited[q] + SleepSeconds ELSE waited[q]]
    /\ elapsed' = [elapsed EXCEPT ![r] = @ + SleepSeconds]
    /\ pc' = [pc EXCEPT ![r] = "loop"]
    /\ Schedule(r, "wake")
    /\ UNCHANGED <<headers, args, task_id, result, resp, data, outcome, calls,
                   remote, handlerVars, latency>>

\* asyncio.sleep(4) completes; waited += 4
Wake(r) ==
    /\ pc[r] = "sleep"
    /\ CanRun(r)
    /\ waited' = [waited EXCEPT ![r] = @ + SleepSeconds]
    /\ elapsed' = [elapsed EXCEPT ![r] = @ + SleepSeconds]
    /\ pc' = [pc EXCEPT ![r] = "loop"]
    /\ Schedule(r, "wake")
    /\ UNCHANGED <<headers, args, task_id, result, resp, data, outcome, calls,
                   remote, handlerVars, latency>>

\* the raise after the loop is missing: run_job falls off its end
TimeOut_ReturnsNone(r) ==
    /\ pc[r] = "loop"
    /\ CanRun(r)
    /\ ~LoopTest(waited[r], args[r].max_wait)
    /\ outcome' = [outcome EXCEPT ![r] = [site |-> "end", res |-> Returned(Null)]]
    /\ pc' = [pc EXCEPT ![r] = "done"]
    /\ Schedule(r, "exit")
    /\ UNCHANGED <<headers, args, task_id, waited, result, resp, data, calls,
                   remote, handlerVars, latency, elapsed>>

\* the loop condition fails: raise TimeoutError("Generation timeout")
TimeOut(r) ==
    /\ pc[r] = "loop"
    /\ CanRun(r)
    /\ ~LoopTest(waited[r], args[r].max_wait)
    /\ outcome' = [outcome EXCEPT ![r] =
                      [site |-> "timeout",
                       res |-> Raised("TimeoutError", "Generation timeout")]]
    /\ pc' = [pc EXCEPT ![r] = "done"]
    /\ Schedule(r, "exit")
    /\ UNCHANGED <<headers, args, task_id, waited, result, resp, data, calls,
                   remote, handlerVars, latency, elapsed>>

\* the handler calls run_job once more when it raised
Reply_RetryOnce(r) ==
    /\ handler[r] = "awaiting"
    /\ pc[r] = "done"
    /\ CanRun(r)
    /\ IF outcome[r].res.raised /\ Len(calls[r]) < 2
       THEN /\ pc' = [pc EXCEPT ![r] = "generate"]
            /\ Schedule(r, "call")
            /\ UNCHANGED <<replies, handler>>
       ELSE /\ replies' = [replies EXCEPT ![r] =
                              Append(@, FinalMessage(outcome[r]))]
            /\ handler' = [handler EXCEPT ![r] = "finished"]
            /\ Schedule(r, "exit")
            /\ UNCHANGED pc
    /\ UNCHANGED <<headers, args, task_id, waited, result, resp, data, outcome,
                   calls, remote, update, latency, elapsed>>

\* the handler gets run_job's result or exception and sends its last message
Reply(r) ==
    /\ handler[r] = "awaiting"
    /\ pc[r] = "done"
    /\ CanRun(r)
    /\ replies' = [replies EXCEPT ![r] = Append(@, FinalMessage(outcome[r]))]
    /\ handler' = [handler EXCEPT ![r] = "finished"]
    /\ Schedule(r, "exit")
    /\ UNCHANGED <<headers, runVars, remote, update, latency, elapsed>>

\* the service changes what it holds for a task some invocation still polls
RemoteStep(t) ==
    /\ remote[t] # NoTask
    /\ \E r \in Runs : pc[r] \in {"loop", "sleep"} /\ task_id[r] = t
    /\ \E body \in StatusBodies \ {remote[t]} :
          remote' = [remote EXCEPT ![t] = body]
    /\ UNCHANGED <<headers, runVars, handlerVars, running, yields, latency,
                   elapsed>>

RunStep(r) == Call(r) \/ Generate(r) \/ Poll(r) \/ Wake(r) \/ TimeOut(r)

HandlerStep(r) == Handle(r) \/ Reply(r)

Next ==
    \/ \E r \in Runs : Call(r)
    \/ \E r \in Runs : Handle(r)
    \/ \E r \in Runs : Generate(r)
    \/ \E r \in Runs : Poll(r)
    \/ \E r \in Runs : Wake(r)
    \/ \E r \in Runs : TimeOut(r)
    \/ \E r \in Runs : Reply(r)
    \/ \E t \in TaskIds : RemoteStep(t)

Spec == Init /\ [][Next]_vars

HandlerSpec == HandlerInit /\ [][Next]_vars

TimedSpec == TimedInit /\ [][Next]_vars

ConcSpec == ConcInit /\ [][Next]_vars

\* every invocation keeps taking its steps (calls return, sleeps complete)
FairSpec ==
    Spec /\ \A r \in Runs : WF_vars(RunStep(r)) /\ WF_vars(HandlerStep(r))

\* ------------------------------------------------------------------------
\* Properties
\* ------------------------------------------------------------------------
\* the status calls an invocation has issued, in order
StatusCalls(r) == SelectSeq(calls[r], LAMBDA c : c.op = "status")
\* the create-task calls an invocation has issued
GenerateCalls(r) == SelectSeq(calls[r], LAMBDA c : c.op = "generate")
\* the values of waited at which the invocation polled
PollTimes(r) == [i \in 1 .. Len(StatusCalls(r)) |-> StatusCalls(r)[i].at]
\* the last poll returned a data dict
Polled(r) == data[r] # Unset /\ data[r] # Null

\* C1: a poll that returns successFlag = 1 ends the run: the run is over, the
\* poll that saw the flag is the last service call (a first poll with flag 1
\* makes exactly one poll), and run_job returns the resultImageUrl of that
\* same response when it carries one.
C1_SuccessEndsRun ==
    \A r \in Runs :
        (Polled(r) /\ FlagIs(data[r], 1)) =>
            /\ pc[r] = "done"
            /\ resp[r] = Json([data |-> data[r]])
            /\ Len(StatusCalls(r)) = (waited[r] \div SleepSeconds) + 1
            /\ calls[r][Len(calls[r])].op = "status"
            /\ waited[r] = 0 => Len(StatusCalls(r)) = 1
            /\ "response" \in DOMAIN data[r] =>
                   outcome[r] = [site |-> "result",
                                 res |-> Returned(data[r].response.resultImageUrl)]

\* C1 witness: the first poll returned flag 1 and the run returned its URL
C1_Witness ==
    \E r \in Runs :
        /\ pc[r] = "done"
        /\ data[r] = [successFlag |-> 1,
                      response |-> [resultImageUrl |-> ResultUrl]]
        /\ Len(StatusCalls(r)) = 1
        /\ outcome[r].res = Returned(ResultUrl)

\* C2: a poll that returns successFlag 2 or 3 ends the run with the
\* ValueError of the failure branch carrying that response's errorMessage, or
\* "Generation failed" when it has none, and it is the last service call (a
\* first poll with flag 2 or 3 makes exactly one poll).
C2_FailureEndsRun ==
    \A r \in Runs :
        (Polled(r) /\ (FlagIs(data[r], 2) \/ FlagIs(data[r], 3))) =>
            /\ pc[r] = "done"
            /\ resp[r] = Json([data |-> data[r]])
            /\ Len(StatusCalls(r)) = (waited[r] \div SleepSeconds) + 1
            /\ calls[r][Len(calls[r])].op = "status"
            /\ waited[r] = 0 => Len(StatusCalls(r)) = 1
            /\ outcome[r].site = "failed"
            /\ outcome[r].res.raised
            /\ outcome[r].res.exc = "ValueError"
            /\ outcome[r].res.msg =
                   (IF "errorMessage" \in DOMAIN data[r]
                    THEN data[r].errorMessage ELSE "Generation failed")

\* C2 witness: the first poll returned flag 3 without a message
C2_Witness ==
    \E r \in Runs :
        /\ pc[r] = "done"
        /\ data[r] = [successFlag |-> 3]
        /\ Len(StatusCalls(r)) = 1
        /\ outcome[r].res = Raised("ValueError", "Generation failed")

\* the run ended with TimeoutError after a last poll that returned flag 0
TimedOutPending(r) ==
    /\ pc[r] = "done"
    /\ outcome[r].site = "timeout"
    /\ Polled(r) /\ FlagIs(data[r], 0)

\* C3 as stated: with max_wait = 10 a run whose polls stay pending times out
\* after exactly 2 polls, made at elapsed 0 and 5.
C3_Original ==
    \A r \in Runs :
        (TimedOutPending(r) /\ args[r].max_wait = 10) =>
            PollTimes(r) = <<0, 5>>

\* C3 amended: the interval is the fixed 4 seconds of run_job, so with
\* max_wait = 10 a run whose polls stay pending raises TimeoutError after
\* exactly 3 polls, made at waited = 0, 4 and 8, and leaves the loop at
\* waited = 12; in every run the k-th poll is made at waited = 4 * (k - 1).
C3_ThreePollsAtFourSeconds ==
    \A r \in Runs :
        /\ \A i \in 1 .. Len(StatusCalls(r)) : PollTimes(r)[i] = 4 * (i - 1)
        /\ (TimedOutPending(r) /\ args[r].max_wait = 10) =>
               /\ PollTimes(r) = <<0, 4, 8>>
               /\ waited[r] = 12
               /\ outcome[r].res = Raised("TimeoutError", "Generation timeout")

\* C3 witness: a run with max_wait = 10 timed out after three pending polls
C3_Witness ==
    \E r \in Runs :
        /\ TimedOutPending(r)
        /\ args[r].max_wait = 10
        /\ Len(StatusCalls(r)) = 3

\* the create-task reply was parsed and its code is not the success code
Rejected(r) ==
    /\ result[r] # Unset
    /\ ("code" \notin DOMAIN result[r] \/ result[r].code # 200)

\* C4: when the create-task reply has a code other than 200, _generate_task
\* raises ValueError with the reply's msg, or "Unknown error" when it has
\* none, run_job ends with that error, and the run issues no status call.
C4_RejectedSubmission ==
    \A r \in Runs :
        Rejected(r) =>
            /\ pc[r] = "done"
            /\ outcome[r].site = "generate"
            /\ outcome[r].res =
                   Raised("ValueError",
                          IF "msg" \in DOMAIN result[r]
                          THEN result[r].msg ELSE "Unknown error")
            /\ Len(StatusCalls(r)) = 0
            /\ Len(calls[r]) = 1

\* C4 witness: the service answered {code: 500, msg: "bad prompt"}
C4_Witness ==
    \E r \in Runs :
        /\ result[r] = [code |-> 500, msg |-> "bad prompt"]
        /\ outcome[r].res = Raised("ValueError", "bad prompt")
        /\ calls[r] = <<GenerateRequest(args[r])>>

\* C5 as stated: an IMAGETOIAMGE request with empty or absent source images
\* never reaches the network: the run issues no service call at all.
C5_NoCallWithoutSourceImages ==
    \A r \in Runs :
        (/\ args[r] # NotCalled
         /\ args[r].type_ = "IMAGETOIAMGE"
         /\ args[r].image_urls \in {Null, PyList(<<>>)}) =>
            calls[r] = <<>>

\* C6: a run issues exactly one create-task call, as its first service call;
\* every later call is a status call for the task id that create-task reply
\* returned; a run whose create-task call failed issues nothing more.
C6_OneSubmitThenPolls ==
    \A r \in Runs :
        /\ pc[r] \in {"idle", "generate"} => calls[r] = <<>>
        /\ pc[r] \in {"loop", "sleep", "done"} =>
               /\ Len(GenerateCalls(r)) = 1
               /\ calls[r][1] = GenerateRequest(args[r])
               /\ \A i \in 2 .. Len(calls[r]) :
                      /\ calls[r][i].op = "status"
                      /\ result[r] # Unset
                      /\ "data" \in DOMAIN result[r]
                      /\ calls[r][i].taskId = result[r].data.taskId
        /\ (pc[r] = "done" /\ outcome[r].site = "generate") =>
               Len(calls[r]) = 1

\* C6 witness: a run polled twice the task its one create-task call returned
C6_Witness ==
    \E r \in Runs :
        /\ Len(calls[r]) = 3
        /\ Len(GenerateCalls(r)) = 1
        /\ result[r] = [code |-> 200, data |-> [taskId |-> "t2"]]
        /\ calls[r][3].taskId = "t2"

\* C7: the branch run_job takes after a poll is decided by successFlag alone:
\* 1 takes the success branch (line 94), 2 and 3 take the failure branch
\* (line 96), every other value, 0 and a missing flag included, is pending:
\* the run goes to sleep and, back in the loop, polls again while
\* waited < max_wait; it is never ended by that poll.
C7_FlagDecidesBranch ==
    \A r \in Runs :
        Polled(r) =>
            /\ "successFlag" \notin DOMAIN data[r] =>
                   /\ PollStatus(data[r]) = "Pending"
                   /\ pc[r] = "done" => outcome[r].site \in {"timeout", "status"}
            /\ "successFlag" \in DOMAIN data[r] =>
                   /\ data[r].successFlag = 1 =>
                          /\ PollStatus(data[r]) = "Succeeded"
                          /\ pc[r] = "done" /\ outcome[r].site = "result"
                   /\ data[r].successFlag \in {2, 3} =>
                          /\ PollStatus(data[r]) = "Failed"
                          /\ pc[r] = "done" /\ outcome[r].site = "failed"
                   /\ data[r].successFlag \notin {1, 2, 3} =>
                          /\ PollStatus(data[r]) = "Pending"
                          /\ pc[r] = "done" =>
                                 outcome[r].site \in {"timeout", "status"}
            /\ (PollStatus(data[r]) = "Pending" /\ resp[r] = Json([data |-> data[r]])
                    /\ pc[r] = "done") =>
                   (outcome[r].site = "timeout" /\ waited[r] >= args[r].max_wait)

\* C7 witness: a poll with the flag 4 left the run sleeping
C7_Witness ==
    \E r \in Runs :
        /\ pc[r] = "sleep"
        /\ data[r] = [successFlag |-> 4]
        /\ Len(StatusCalls(r)) = 2

RunOutcome(r) ==
    IF outcome[r].site = "generate" THEN "SubmissionFailed"
    ELSE IF outcome[r].site = "result" /\ ~outcome[r].res.raised THEN "Succeeded"
    ELSE IF outcome[r].site = "failed" THEN "Failed"
    ELSE IF outcome[r].site = "timeout" THEN "TimedOut"
    ELSE "StatusFailed"

\* C9 as stated: a run ends in one of SubmissionFailed, Succeeded, Failed or
\* TimedOut and in no other way.
C9_FourOutcomes ==
    \A r \in Runs :
        pc[r] = "done" =>
            RunOutcome(r) \in {"SubmissionFailed", "Succeeded", "Failed", "TimedOut"}

\* C9 amended: every invoked run eventually ends, in exactly one of
\* SubmissionFailed, Succeeded, Failed, TimedOut or StatusFailed (a status
\* call that raises, or a reply run_job cannot read, ends the run with that
\* error), and once ended it issues no further service call.
C9_TerminatesInFiveOutcomes ==
    /\ \A r \in Runs : (pc[r] = "generate") ~> (pc[r] = "done")
    /\ [](\A r \in Runs :
             pc[r] = "done" =>
                 /\ outcome[r] # Unset
                 /\ RunOutcome(r) \in {"SubmissionFailed", "Succeeded", "Failed",
                                       "TimedOut", "StatusFailed"}
                 /\ RunOutcome(r) = "StatusFailed" =>
                        (outcome[r].res.raised /\ outcome[r].site \in
                            {"status", "flag", "result"})
                 /\ RunOutcome(r) = "TimedOut" =>
                        waited[r] >= args[r].max_wait)
    /\ [][\A r \in Runs :
             pc[r] = "done" =>
                 (pc'[r] = "done" /\ calls'[r] = calls[r]
                     /\ outcome'[r] = outcome[r])]_vars

\* C9 witness: a run ended because a status call raised
C9_Witness ==
    \E r \in Runs :
        /\ pc[r] = "done"
        /\ RunOutcome(r) = "StatusFailed"
        /\ outcome[r].site = "status"
        /\ Len(StatusCalls(r)) = 2

\* the last status call failed: it raised or its body was not JSON
StatusCallFailed(r) == resp[r] \in {NetError, NotJson}

\* C10 as stated: a failure to obtain a status is taken as Pending, so no run
\* ends with the error of a failed status call: the run polls on and can only
\* end as a success, a failure or a timeout.
C10_StatusFailureIsPending ==
    \A r \in Runs :
        StatusCallFailed(r) =>
            \/ pc[r] \in {"sleep", "loop"}
            \/ pc[r] = "done" /\ outcome[r].site = "timeout"

\* C10 amended: only a JSON body without the data object is taken as Pending
\* (the run sleeps, polls on within the budget and otherwise ends with
\* TimeoutError); a network error or an unparseable body raises out of
\* run_job at once, as a failure distinct from TimeoutError, and no further
\* call is issued.
C10_OnlyMissingDataIsPending ==
    \A r \in Runs :
        /\ StatusCallFailed(r) =>
               /\ pc[r] = "done"
               /\ outcome[r].site = "status"
               /\ outcome[r].res.raised
               /\ outcome[r].res.exc =
                      (IF resp[r] = NetError
                       THEN "RequestException" ELSE "JSONDecodeError")
               /\ Len(StatusCalls(r)) = (waited[r] \div 4) + 1
        /\ (resp[r] # Unset /\ ~StatusCallFailed(r)
                /\ "data" \notin DOMAIN resp[r].json) =>
               /\ data[r] = EmptyDict
               /\ \/ pc[r] \in {"sleep", "loop"}
                  \/ /\ pc[r] = "done"
                     /\ outcome[r].res = Raised("TimeoutError", "Generation timeout")
                     /\ waited[r] >= args[r].max_wait

\* C10 witness: a second status call raised a network error and ended the run
C10_Witness ==
    \E r \in Runs :
        /\ resp[r] = NetError
        /\ pc[r] = "done"
        /\ outcome[r].res.exc = "RequestException"
        /\ Len(StatusCalls(r)) = 2

\* C10 second case reached: a body without data left a run polling, which then
\* timed out
C10_WitnessMissingData ==
    \E r \in Runs :
        /\ resp[r] = Json(EmptyDict)
        /\ pc[r] = "done"
        /\ outcome[r].site = "timeout"
\* the handler of r's update has called run_job
Started(r) == update[r] # NoUpdate /\ handler[r] \in {"awaiting", "finished"}
                 /\ args[r] # NotCalled

\* C11: no error is retried: once run_job has raised (or returned), the
\* invocation issues no further service call and its handler does not call
\* run_job again, so one update causes at most one create-task call; the call
\* that raised is the last one issued.
C11_NoRetry ==
    /\ [](\A r \in Runs :
             /\ Len(GenerateCalls(r)) <= 1
             /\ update[r] # NoUpdate =>
                    Len(GenerateCalls(r)) <= (IF Started(r) THEN 1 ELSE 0)
             /\ (outcome[r] # Unset /\ outcome[r].res.raised) =>
                    /\ pc[r] = "done"
                    /\ outcome[r].site = "generate" => Len(calls[r]) = 1
                    /\ outcome[r].site \in {"status", "failed", "flag", "result"} =>
                           /\ calls[r][Len(calls[r])].op = "status"
                           /\ calls[r][Len(calls[r])].at = waited[r])
    /\ [][\A r \in Runs :
             outcome[r] # Unset =>
                 (calls'[r] = calls[r] /\ outcome'[r] = outcome[r]
                     /\ pc'[r] = "done")]_vars

\* C11 witness: a handler has finished after a status call of its run raised
C11_Witness ==
    \E r \in Runs :
        /\ handler[r] = "finished"
        /\ outcome[r] # Unset /\ outcome[r].site = "status"
        /\ Len(calls[r]) = 3

\* C12: a handler that has called run_job sends, after its first message,
\* exactly one more message and then finishes: the photo of the returned URL
\* when run_job returned, an error message carrying the exception's text when
\* run_job raised anything; while the run is on it has sent nothing more, and
\* once the run is over the last message can be sent.
C12_OneFinalReply ==
    \A r \in Runs :
        Started(r) =>
            /\ handler[r] = "awaiting" =>
                   /\ Len(replies[r]) = 1
                   /\ (pc[r] = "done" /\ running = NoOne) => ENABLED Reply(r)
            /\ handler[r] = "finished" =>
                   /\ pc[r] = "done"
                   /\ Len(replies[r]) = 2
                   /\ ~outcome[r].res.raised =>
                          replies[r][2] = [kind |-> "photo",
                                           body |-> outcome[r].res.value]
                   /\ outcome[r].res.raised =>
                          replies[r][2] = [kind |-> "error",
                                           body |-> outcome[r].res.msg]

\* C12 witness: a handler sent the error of a run that timed out
C12_Witness ==
    \E r \in Runs :
        /\ Started(r) /\ handler[r] = "finished"
        /\ replies[r][2] = [kind |-> "error", body |-> "Generation timeout"]

\* C12 second case reached: a handler sent the photo
C12_WitnessPhoto ==
    \E r \in Runs :
        /\ Started(r) /\ handler[r] = "finished"
        /\ replies[r][2] = [kind |-> "photo", body |-> ResultUrl]

\* the update asks for an image edit
IsEdit(u) == u.kind = "nanoedit" \/ (u.kind = "text" /\ u.reply_to_photo)

\* C16: mode dispatch. Text replying to a photo and /nanoedit replying to a
\* photo start an IMAGETOIAMGE run with exactly one source URL; other text
\* and /nano start a TEXTTOIAMGE run without source images; /nano and
\* /nanoedit without arguments, and an edit that does not reply to a photo,
\* issue no service call; so every create-task call of a handler carries
\* imageUrls exactly when its type is IMAGETOIAMGE.
C16_ModeDispatch ==
    \A r \in Runs :
        (update[r] # NoUpdate /\ handler[r] # "received") =>
            LET u == update[r]
                noRun == \/ u.kind = "start"
                         \/ ~u.has_args
                         \/ (u.kind = "nanoedit" /\ ~u.reply_to_photo)
            IN  /\ noRun => (args[r] = NotCalled /\ calls[r] = <<>>
                                /\ pc[r] = "idle" /\ handler[r] = "finished")
                /\ ~noRun =>
                       /\ Started(r)
                       /\ args[r].max_wait = 240
                       /\ IsEdit(u) =>
                              /\ args[r].type_ = "IMAGETOIAMGE"
                              /\ args[r].image_urls = [list |-> <<SourceUrl>>]
                       /\ ~IsEdit(u) =>
                              /\ args[r].type_ = "TEXTTOIAMGE"
                              /\ args[r].image_urls = Null
                /\ \A i \in 1 .. Len(calls[r]) :
                       calls[r][i].op = "generate" =>
                           /\ calls[r][i].json.type = "IMAGETOIAMGE" =>
                                  /\ "imageUrls" \in DOMAIN calls[r][i].json
                                  /\ Len(calls[r][i].json.imageUrls.list) = 1
                           /\ calls[r][i].json.type = "TEXTTOIAMGE" =>
                                  "imageUrls" \notin DOMAIN calls[r][i].json

\* C16 witness: text replying to a photo submitted an edit with one source URL
C16_Witness ==
    \E r \in Runs :
        /\ update[r] = [kind |-> "text", has_args |-> TRUE, reply_to_photo |-> TRUE]
        /\ Len(calls[r]) >= 1
        /\ calls[r][1].json.type = "IMAGETOIAMGE"
        /\ calls[r][1].json.imageUrls = PyList(<<SourceUrl>>)

\* C16 second case reached: /nanoedit without a replied-to photo ended without
\* a call
C16_WitnessNoCall ==
    \E r \in Runs :
        /\ update[r] = [kind |-> "nanoedit", has_args |-> TRUE,
                        reply_to_photo |-> FALSE]
        /\ handler[r] = "finished"
        /\ calls[r] = <<>>
\* max(0, ceil(m / 4)): the polls a budget of m seconds allows
MaxPolls(m) == IF m <= 0 THEN 0 ELSE (m + 3) \div 4

\* C15: for any max_wait, every poll is made with waited a multiple of 4 and
\* 0 <= waited < max_wait, every pending poll is followed by one 4-second
\* sleep, and a run whose polls all stay pending makes exactly
\* max(0, ceil(max_wait / 4)) polls and then raises TimeoutError; with
\* max_wait <= 0 the create-task call is made and no poll.
C15_PollCount ==
    \A r \in Runs :
        args[r] # NotCalled =>
            LET m == args[r].max_wait
                n == Len(StatusCalls(r))
            IN  /\ \A i \in 1 .. n :
                       /\ PollTimes(r)[i] % 4 = 0
                       /\ 0 <= PollTimes(r)[i] /\ PollTimes(r)[i] < m
                /\ n <= MaxPolls(m)
                /\ pc[r] = "sleep" => waited[r] = 4 * (n - 1)
                /\ pc[r] = "loop" => waited[r] = 4 * n
                /\ (pc[r] = "done" /\ outcome[r].site = "timeout") =>
                       /\ n = MaxPolls(m)
                       /\ waited[r] = 4 * n
                       /\ outcome[r].res = Raised("TimeoutError", "Generation timeout")
                       /\ Len(calls[r]) = n + 1
                /\ (m <= 0 /\ pc[r] \in {"loop", "sleep", "done"}) =>
                       /\ n = 0
                       /\ calls[r] = <<GenerateRequest(args[r])>>
                       /\ pc[r] # "sleep"
                       /\ pc[r] = "done" => outcome[r].site \in {"generate", "timeout"}

\* C15 witness: with max_wait = 0 the task was created, never polled, and the
\* run timed out
C15_Witness ==
    \E r \in Runs :
        /\ args[r] # NotCalled /\ args[r].max_wait = 0
        /\ pc[r] = "done" /\ outcome[r].site = "timeout"
        /\ task_id[r] # NoTaskId
        /\ Len(calls[r]) = 1

\* C15 second case reached: max_wait = 9 timed out after ceil(9 / 4) = 3 polls
C15_WitnessNine ==
    \E r \in Runs :
        /\ args[r] # NotCalled /\ args[r].max_wait = 9
        /\ pc[r] = "done" /\ outcome[r].site = "timeout"
        /\ Len(StatusCalls(r)) = 3
\* C14 as stated: with each call bounded by 60 seconds a run lasts at most
\* 60 + max_wait seconds from the start of its submit to its end.
C14_TimeoutPlusBudget ==
    \A r \in Runs :
        pc[r] = "done" => elapsed[r] <= 60 + args[r].max_wait

\* C14 amended: each call a run issues can take up to 60 seconds and waited
\* counts only the sleeps, so a run has lasted at most 60 seconds per call
\* issued plus waited, and a finished run at most 60 * (1 + P) + 4 * P
\* seconds, P = max(0, ceil(max_wait / 4)) being the polls its budget allows.
C14_TimeoutPerCall ==
    \A r \in Runs :
        args[r] # NotCalled =>
            LET P == MaxPolls(args[r].max_wait)
            IN  /\ waited[r] <= elapsed[r]
                /\ elapsed[r] <= 60 * Len(calls[r]) + waited[r]
                /\ waited[r] <= 4 * P
                /\ Len(calls[r]) <= 1 + P
                /\ pc[r] = "done" => elapsed[r] <= 60 * (1 + P) + 4 * P

\* C14 witness: a run whose calls all took 60 seconds ended later than
\* 60 + max_wait
C14_Witness ==
    \E r \in Runs :
        /\ pc[r] = "done"
        /\ Len(calls[r]) = 3
        /\ elapsed[r] = 60 * 3 + waited[r]
        /\ elapsed[r] > 60 + args[r].max_wait
\* what invocation r keeps to itself: its position and the locals of run_job
Locals(r) ==
    <<args[r], pc[r], task_id[r], waited[r], result[r], resp[r], data[r],
      outcome[r], calls[r], yields[r]>>

\* no invocation other than r moves in this step
OthersStill(r) == \A q \in Runs \ {r} : Locals(q)' = Locals(q)

\* the number of sleeps invocation r has entered
SleepsEntered(r) ==
    (waited[r] \div SleepSeconds) + (IF pc[r] = "sleep" THEN 1 ELSE 0)

\* C17: the sleep between polls is the only point where a run gives up the
\* event loop. A run holds the loop exactly while it is between its call and
\* its next sleep or its end (at the submit call or at a poll), and while it
\* holds the loop no other run takes a step; it has been suspended once per
\* sleep entered and never otherwise, so a run that ended on its first poll
\* (or at the submit call) was never suspended; while a run sleeps and the
\* loop is free, every other run that is waiting to start or to wake can take
\* its step.
C17_HoldsLoop ==
    \A r \in Runs :
        /\ running = r <=> pc[r] \in {"generate", "loop"}
        /\ yields[r] = SleepsEntered(r)
        /\ (pc[r] = "done" /\ outcome[r].site # "timeout"
                /\ Len(StatusCalls(r)) <= 1) => yields[r] = 0
        /\ (pc[r] = "sleep" /\ running = NoOne) =>
               \A q \in Runs \ {r} :
                   /\ (pc[q] = "idle" /\ args[q] # NotCalled) => ENABLED Call(q)
                   /\ pc[q] = "sleep" => ENABLED Wake(q)

C17_NoInterleaving ==
    \A r \in Runs : running = r => OthersStill(r)

C17_YieldsOnlyInSleep == []C17_HoldsLoop /\ [][C17_NoInterleaving]_vars

\* C17 witness: run 1 sleeps after its first poll while run 2, called
\* meanwhile, holds the event loop and has polled
C17_Witness ==
    /\ pc[1] = "sleep" /\ yields[1] = 1 /\ waited[1] = 0
    /\ running = 2 /\ pc[2] = "loop" /\ Len(StatusCalls(2)) = 1

\* C17 witness: a run whose first poll returned flag 1 ended without having
\* been suspended
C17_WitnessNoYield ==
    \E r \in Runs :
        /\ pc[r] = "done" /\ outcome[r].site = "result"
        /\ Len(StatusCalls(r)) = 1 /\ yields[r] = 0

\* a status response after which the loop sleeps
PendingReply == Json([data |-> [successFlag |-> 0]])

\* the reply invocation r got to its create-task call
SubmitReply(r) ==
    IF result[r] # Unset THEN Json(result[r])
    ELSE IF outcome[r].res.exc = "JSONDecodeError" THEN NotJson ELSE NetError

\* the replies invocation r got to its status calls: the last one is kept in
\* resp, and every earlier one made the loop sleep
StatusReplies(r) ==
    [i \in 1 .. Len(StatusCalls(r)) |->
        IF i < Len(StatusCalls(r)) THEN PendingReply ELSE resp[r]]

\* the loop of run_job executed alone from waited = w after n polls, given
\* the replies rs to its further polls, as far as those replies take it
RECURSIVE SoloLoop(_, _, _, _, _)
SoloLoop(id, max_wait, w, n, rs) ==
    IF ~LoopTest(w, max_wait)
    THEN [task_id |-> id, waited |-> w, polls |-> n, ended |-> TRUE,
          outcome |-> [site |-> "timeout",
                       res |-> Raised("TimeoutError", "Generation timeout")]]
    ELSE IF rs = <<>>
    THEN [task_id |-> id, waited |-> w, polls |-> n, ended |-> FALSE,
          outcome |-> Unset]
    ELSE LET got == GetStatusResult(Head(rs))
         IN  IF got.raised
             THEN [task_id |-> id, waited |-> w, polls |-> n + 1,
                   ended |-> TRUE,
                   outcome |-> [site |-> "status", res |-> got]]
             ELSE LET body == LoopBody(got.value)
                  IN  IF body.act = "sleep"
                      THEN SoloLoop(id, max_wait, w + SleepSeconds, n + 1,
                                    Tail(rs))
                      ELSE [task_id |-> id, waited |-> w, polls |-> n + 1,
                            ended |-> TRUE,
                            outcome |-> [site |-> body.site,
                                         res |-> body.res]]

\* run_job executed alone with arguments a, given the reply to its submit
\* call and the replies to its polls
SoloRun(a, submit, rs) ==
    LET res == GenerateResult(submit)
    IN  IF res.raised
        THEN [task_id |-> NoTaskId, waited |-> 0, polls |-> 0, ended |-> TRUE,
              outcome |-> [site |-> "generate", res |-> res]]
        ELSE SoloLoop(res.value, a.max_wait, 0, 0, rs)

\* invocation r is where run_job executed alone would be on the replies r got
AsIfAlone(r) ==
    LET solo == SoloRun(args[r], SubmitReply(r), StatusReplies(r))
    IN  /\ task_id[r] = solo.task_id
        /\ Len(StatusCalls(r)) = solo.polls
        /\ Len(GenerateCalls(r)) = 1
        /\ IF pc[r] = "done"
           THEN /\ solo.ended
                /\ outcome[r] = solo.outcome
                /\ waited[r] = solo.waited
           ELSE IF pc[r] = "sleep"
           THEN solo.waited = waited[r] + SleepSeconds
           ELSE /\ waited[r] = solo.waited
                /\ solo.ended => solo.outcome.site = "timeout"

\* C13: concurrent invocations of run_job share no mutable state. Under every
\* interleaving of two invocations, each one's task id, loop counter, number
\* of polls and outcome are those of run_job executed alone on the replies
\* the service gave to that invocation; a step of one invocation changes
\* nothing another invocation holds; and the one thing all invocations read,
\* the client's headers, is never written.
C13_EachAsIfAlone ==
    \A r \in Runs : Len(calls[r]) > 0 => AsIfAlone(r)

C13_OwnStateOnly ==
    /\ headers' = headers
    /\ \A r \in Runs : Locals(r)' # Locals(r) => OthersStill(r)

C13_NoSharedState == []C13_EachAsIfAlone /\ [][C13_OwnStateOnly]_vars

\* C13 witness: both invocations sleep at once, one after its second poll and
\* one after its first, each with its own task
C13_Witness ==
    /\ pc[1] = "sleep" /\ waited[1] = SleepSeconds
    /\ pc[2] = "sleep" /\ waited[2] = 0
    /\ task_id[1] # task_id[2]
    /\ Len(StatusCalls(1)) = 2 /\ Len(StatusCalls(2)) = 1

\* C13 witness: after interleaved polls the two invocations ended differently
C13_WitnessEnded ==
    /\ pc[1] = "done" /\ outcome[1].site = "timeout" /\ waited[1] = 2 * SleepSeconds
    /\ pc[2] = "done" /\ outcome[2].site = "result" /\ waited[2] = SleepSeconds

====
